---- MODULE Spec2Model ----
(***************************************************************************)
(* DosimeterCounter firmware (src/DosimeterCounter/src/main.c).            *)
(*                                                                         *)
(* Two contexts share the globals head_position, enable_count and the      *)
(* three count tables: the step interrupt handler Trigger_Step and the     *)
(* foreground loop of main, which assembles lines and runs parse_gcode.    *)
(* The interrupt pre-empts the foreground at statement boundaries; the     *)
(* hardware pulse counters of TC0 count at any instant.                    *)
(*                                                                         *)
(* Widths and sizes are scaled: the tables have HEAD_STEPS_MAX cells of    *)
(* CellBits bits (8000 cells of 16 bits in the source), the line buffer    *)
(* has 2^BufBits bytes (256 in the source).                                *)
(***************************************************************************)
EXTENDS Integers, Sequences, FiniteSets, TLC

\* ------------------------------------------------------------------ sizes
\* #define HEAD_STEPS_MAX 8000, scaled
HEAD_STEPS_MAX == 3
\* volatile uint16_t ..._count[]: width of one cell, scaled from 16
CellBits == 2
\* char linebuf[256]; uint8_t buflen: width of the index, scaled from 8
BufBits == 4
\* pulses the detector hardware delivers in one run of the model
MaxPulses == 2

RECURSIVE Pow2(_)
Pow2(n) == IF n = 0 THEN 1 ELSE 2 * Pow2(n - 1)

CellMod == Pow2(CellBits)
CELL_MAX == CellMod - 1
\* the counter value register read through the (uint16_t) cast: the model
\* gives it the width of a cell, so that the cast drops nothing
TcMod == CellMod
BufSize == Pow2(BufBits)

Chan == 0..2
Pos == 0..(HEAD_STEPS_MAX - 1)
NUL == "NUL"

Min(a, b) == IF a < b THEN a ELSE b

\* ------------------------------------------------------------ characters
Digits == <<"0", "1", "2", "3", "4", "5", "6", "7", "8", "9">>
IsDigit(c) == \E d \in 1..10 : Digits[d] = c
DigitVal(c) == (CHOOSE d \in 1..10 : Digits[d] = c) - 1
IsSpace(c) == c \in {" ", "\t"}

\* printf("%" PRId32) / printf("%" PRIu16): decimal digits, '-' for negatives
RECURSIVE DecNat(_)
DecNat(n) == IF n < 10 THEN <<Digits[n + 1]>>
             ELSE DecNat(n \div 10) \o <<Digits[(n % 10) + 1]>>
Dec(n) == IF n < 0 THEN <<"-">> \o DecNat(0 - n) ELSE DecNat(n)

\* the command words compared by strcmp / strncmp
W(d) == <<"M", "1", "0", "0", d>>
M1001 == W("1")
M1002 == W("2")
M1003 == W("3")
M1004 == W("4")
M1005 == W("5")
M1006 == W("6")

\* strncmp(line, "M1005", 5) == 0
HasPrefix5(s) == Len(s) >= 5 /\ SubSeq(s, 1, 5) = M1005

\* ----------------------------------------------------------------- sscanf
\* index of the first non-blank character of s at or after i
RECURSIVE SkipWs(_, _)
SkipWs(s, i) == IF i <= Len(s) /\ IsSpace(s[i]) THEN SkipWs(s, i + 1) ELSE i

\* index after the run of digits starting at i
RECURSIVE SkipDigits(_, _)
SkipDigits(s, i) == IF i <= Len(s) /\ IsDigit(s[i]) THEN SkipDigits(s, i + 1) ELSE i

RECURSIVE DigitsVal(_, _, _, _)
DigitsVal(s, i, j, acc) ==
    IF i >= j THEN acc ELSE DigitsVal(s, i + 1, j, 10 * acc + DigitVal(s[i]))

\* one %d conversion at index i: blanks, an optional sign, at least one digit
ScanInt(s, i) ==
    LET a == SkipWs(s, i)
        signed == a <= Len(s) /\ s[a] \in {"-", "+"}
        b == IF signed THEN a + 1 ELSE a
        e == SkipDigits(s, b)
        v == DigitsVal(s, b, e, 0)
    IN  IF e = b THEN [ok |-> FALSE, val |-> 0, next |-> i]
        ELSE [ok |-> TRUE,
              val |-> IF signed /\ s[a] = "-" THEN 0 - v ELSE v,
              next |-> e]

\* sscanf(line, "M1005 %d %d %d", &channel, &start, &end) on a line that
\* begins with M1005: the number of conversions and the values stored
\* (each conversion is bound once, where the one before it stopped)
Sscanf3(s) ==
    LET Stored(r1, r2, r3) ==
            IF ~r1.ok THEN [n |-> 0, channel |-> 0, start |-> 0, end |-> 0]
            ELSE IF ~r2.ok THEN [n |-> 1, channel |-> r1.val, start |-> 0, end |-> 0]
            ELSE IF ~r3.ok THEN [n |-> 2, channel |-> r1.val, start |-> r2.val, end |-> 0]
            ELSE [n |-> 3, channel |-> r1.val, start |-> r2.val, end |-> r3.val]
    IN  CHOOSE r \in UNION {UNION {{Stored(r1, r2, r3) : r3 \in {ScanInt(s, r2.next)}}
                                      : r2 \in {ScanInt(s, r1.next)}}
                               : r1 \in {ScanInt(s, 6)}} : TRUE


\* ------------------------------------------------------------------ state
VARIABLES
    head_position,  \* volatile int32_t head_position
    enable_count,   \* volatile bool enable_count
    counts,         \* primary_count, secondary_count, tertiary_count
    tc,             \* counter value registers of TC0 channels 1..3
    isrpc,          \* position of Trigger_Step ("idle" when not running)
    head_step,      \* local of Trigger_Step
    pc,             \* position of the foreground loop / parse_gcode
    line,           \* parameter of parse_gcode: the C string handed over
    channel, start, end, i,   \* locals of the M1005 branch
    linebuf, buflen,          \* locals of main
    out,            \* lines written to stdout for the current input line
    sent, rxn,      \* the host's current input line and the bytes consumed
    tcAt,           \* history: positions at which the pulses held in tc arrived
    received,       \* history: pulses received per channel since arming
    added,          \* history: amounts added to cells per channel since arming
    recvAtTrig,     \* history: `received` at the last retrigger of a step
    net,            \* history: forward minus reverse steps since M1002, mod N
    hist,           \* history: position before and direction of the last steps
    npulses         \* history: pulses delivered so far

hw == <<tc, tcAt, received, added, recvAtTrig, npulses>>
isr == <<isrpc, head_step>>
shared == <<head_position, enable_count, counts>>
locals == <<channel, start, end, i>>
asm == <<linebuf, buflen, sent, rxn>>
vars == <<head_position, enable_count, counts, tc, isrpc, head_step, pc, line,
          channel, start, end, i, linebuf, buflen, out, sent, rxn,
          tcAt, received, added, recvAtTrig, net, hist, npulses>>

primary_count == counts[0]
secondary_count == counts[1]
tertiary_count == counts[2]

ZeroTable == [p \in Pos |-> 0]
ZeroChan == [c \in Chan |-> 0]
NoTags == [c \in Chan |-> {}]

\* state after the initialisation part of main (lines 214-235): statics are
\* zero, tc_start has reset the counters, the line buffer is empty
InitCommon ==
    /\ isrpc = "idle" /\ head_step = 0
    /\ pc = "rx" /\ line = <<>>
    /\ channel = 0 /\ start = 0 /\ end = 0 /\ i = 0
    /\ linebuf = [k \in 0..(BufSize - 1) |-> NUL] /\ buflen = 0
    /\ out = <<>> /\ sent = <<>> /\ rxn = 0
    /\ tcAt = NoTags /\ received = ZeroChan /\ added = ZeroChan
    /\ recvAtTrig = ZeroChan /\ net = 0 /\ npulses = 0
    /\ hist = <<>>

Init ==
    /\ head_position = 0
    /\ enable_count = FALSE
    /\ counts = [c \in Chan |-> ZeroTable]
    /\ tc = ZeroChan
    /\ InitCommon

\* ------------------------------------------------------- Trigger_Step
\* line 45: pio_get(..., COUNTER_DIR_PIN) ? 1 : -1
Direction == {1, -1}

StepTargetAlways(armed) == "acc0"

\* line 47: if (enable_count)
StepTarget(armed) == IF armed THEN "acc0" ELSE "move"

\* lines 49-51: cell += (uint16_t)tc_read_cv(...), in uint16_t arithmetic
Truncate(cv) == cv % CellMod
Accumulate(old, cv) == (old + Truncate(cv)) % CellMod

MoveHeadForward(p, s) == p + 1

\* line 55
MoveHead(p, s) == p + s

WrapHeadOffByOne(p) ==
    LET a == IF p < 0 THEN p + HEAD_STEPS_MAX ELSE p
    IN  IF a > HEAD_STEPS_MAX THEN a - HEAD_STEPS_MAX ELSE a

WrapHeadHighOnly(p) == IF p >= HEAD_STEPS_MAX THEN p - HEAD_STEPS_MAX ELSE p

\* lines 57-62
WrapHead(p) ==
    LET a == IF p < 0 THEN p + HEAD_STEPS_MAX ELSE p
    IN  IF a >= HEAD_STEPS_MAX THEN a - HEAD_STEPS_MAX ELSE a

AccPc == <<"acc0", "acc1", "acc2">>
AfterAcc == <<"acc1", "acc2", "trig">>

\* the step edge raises the interrupt; the handler samples the direction pin
\* and tests enable_count (lines 45-47)
StepEdgeCore(d) ==
    /\ isrpc = "idle"
    /\ head_step' = d
    /\ isrpc' = StepTarget(enable_count)
    /\ net' = (net + d) % HEAD_STEPS_MAX
    /\ UNCHANGED <<shared, hw, pc, line, locals, asm, out>>

StepEdge(d) == StepEdgeCore(d) /\ UNCHANGED hist

\* the same step edge, recorded: the last HEAD_STEPS_MAX edges are kept, each
\* with the position the head had when it arrived
Recorded(h, p, d) ==
    LET a == Append(h, [pos |-> p, dir |-> d])
    IN  IF Len(a) > HEAD_STEPS_MAX THEN Tail(a) ELSE a

RecordedStepEdge(d) == StepEdgeCore(d) /\ hist' = Recorded(hist, head_position, d)

AccIndexPostStep(p, step) == WrapHead(MoveHead(p, step))

\* lines 49, 50, 51: the cell index, head_position as the handler found it
AccIndex(p, step) == p

\* lines 49, 50, 51: one channel's read of the counter and add into its cell
IsrAccumulate(c) ==
    /\ isrpc = AccPc[c + 1]
    /\ counts' = [counts EXCEPT ![c][AccIndex(head_position, head_step)] = Accumulate(@, tc[c])]
    /\ added' = [added EXCEPT ![c] = @ + Truncate(tc[c])]
    /\ isrpc' = AfterAcc[c + 1]
    /\ UNCHANGED <<head_position, enable_count, tc, tcAt, received, recvAtTrig,
                   npulses, head_step, net, hist, pc, line, locals, asm, out>>

\* tc_sync_trigger(COUNTER_TC): all three counters restart from zero
SyncTrigger == ZeroChan

\* line 52
IsrTrigger ==
    /\ isrpc = "trig"
    /\ tc' = SyncTrigger
    /\ tcAt' = NoTags
    /\ recvAtTrig' = received
    /\ isrpc' = "move"
    /\ UNCHANGED <<shared, received, added, npulses, head_step, net, hist,
                   pc, line, locals, asm, out>>

\* line 55
IsrMove ==
    /\ isrpc = "move"
    /\ head_position' = MoveHead(head_position, head_step)
    /\ isrpc' = "wrap"
    /\ UNCHANGED <<enable_count, counts, hw, head_step, net, hist,
                   pc, line, locals, asm, out>>

\* lines 57-63, and the return of the handler
IsrWrap ==
    /\ isrpc = "wrap"
    /\ head_position' = WrapHead(head_position)
    /\ isrpc' = "idle"
    /\ head_step' = 0
    /\ UNCHANGED <<enable_count, counts, hw, net, hist, pc, line, locals, asm, out>>

\* the position a pulse arriving now belongs to: the head's position, which
\* from the retrigger of a step on is the position the step moves to
PulsePosition ==
    IF isrpc = "move" THEN WrapHead(MoveHead(head_position, head_step))
    ELSE IF isrpc = "wrap" THEN WrapHead(head_position)
    ELSE head_position

\* the detector hardware clocks one pulse into the counter of channel c
Pulse(c) ==
    /\ npulses < MaxPulses
    /\ npulses' = npulses + 1
    /\ tc' = [tc EXCEPT ![c] = (@ + 1) % TcMod]
    /\ tcAt' = [tcAt EXCEPT ![c] = @ \cup {PulsePosition}]
    /\ received' = [received EXCEPT ![c] = @ + 1]
    /\ UNCHANGED <<shared, added, recvAtTrig, isr, net, hist, pc, line, locals, asm, out>>


\* -------------------------------------------------------- parse_gcode
\* the lines printf writes: a literal of the source is one token, a converted
\* number is its decimal digits
OK == <<"ok">>
ErrActive == <<"error: counter is already active">>
ErrNotActive == <<"error: counter is not active">>
ErrReadActive == <<"error: cannot read counter while it is active">>
ErrArgs == <<"error: read command requires three arguments">>
ErrCounter == <<"error: invalid counter">>
ErrRange == <<"error: invalid column range">>
ErrResetActive == <<"error: cannot reset counter while it is active">>
ErrUnknown(s) == <<"error: unknown command '">> \o s \o <<"'">>
Warning == <<"WARNING: input buffer full.  Buffered data have been discarded.">>
IsError(l) == l # <<>> /\ l[1] \in {ErrActive[1], ErrNotActive[1], ErrReadActive[1],
                                     ErrArgs[1], ErrCounter[1], ErrRange[1],
                                     ErrResetActive[1], "error: unknown command '"}

\* the chain of strcmp / strncmp tests (lines 72, 80, 88, 103, 117, 158, 173)
Route(s) ==
    IF s = M1001 THEN "m1001"
    ELSE IF s = M1002 THEN "m1002"
    ELSE IF s = M1003 THEN "m1003"
    ELSE IF s = M1004 THEN "m1004"
    ELSE IF HasPrefix5(s) THEN "m1005"
    ELSE IF s = M1006 THEN "m1006"
    ELSE "unknown"

\* the foreground runs only while the interrupt handler does not
Fg(at) == isrpc = "idle" /\ pc = at

EmitNothing(l) == out' = out

\* printf of one line
Emit(l) == out' = Append(out, l)

\* lines 72-77
CmdM1001 ==
    /\ Fg("m1001")
    /\ out' = out \o <<OK, Dec(head_position)>>
    /\ pc' = "ret"
    /\ UNCHANGED <<shared, hw, isr, net, hist, line, locals, asm>>

\* line 82
ResetPosition == 0

\* lines 80-85
CmdM1002 ==
    /\ Fg("m1002")
    /\ head_position' = ResetPosition
    /\ net' = 0
    /\ hist' = <<>>
    /\ Emit(OK)
    /\ pc' = "ret"
    /\ UNCHANGED <<enable_count, counts, hw, isr, line, locals, asm>>

ArmTargetUnchecked(armed) == "m1003_trig"

\* lines 90-94
ArmTarget(armed) == IF armed THEN "ret" ELSE "m1003_trig"

CmdM1003Check ==
    /\ Fg("m1003")
    /\ pc' = ArmTarget(enable_count)
    /\ out' = IF enable_count THEN Append(out, ErrActive) ELSE out
    /\ UNCHANGED <<shared, hw, isr, net, hist, line, locals, asm>>

\* line 96
\* what line 96 leaves in the counters holding cv
ArmTriggerKeeps(cv) == cv

ArmTrigger(cv) == SyncTrigger

CmdM1003Trigger ==
    /\ Fg("m1003_trig")
    /\ tc' = ArmTrigger(tc)
    /\ tcAt' = NoTags
    /\ received' = ZeroChan
    /\ added' = ZeroChan
    /\ recvAtTrig' = ZeroChan
    /\ pc' = "m1003_set"
    /\ UNCHANGED <<shared, npulses, isr, net, hist, line, locals, asm, out>>

\* lines 97-99
CmdM1003Set ==
    /\ Fg("m1003_set")
    /\ enable_count' = TRUE
    /\ Emit(OK)
    /\ pc' = "ret"
    /\ UNCHANGED <<head_position, counts, hw, isr, net, hist, line, locals, asm>>

\* lines 105-109
DisarmTarget(armed) == IF ~armed THEN "ret" ELSE "m1004_clr"

CmdM1004Check ==
    /\ Fg("m1004")
    /\ pc' = DisarmTarget(enable_count)
    /\ out' = IF ~enable_count THEN Append(out, ErrNotActive) ELSE out
    /\ UNCHANGED <<shared, hw, isr, net, hist, line, locals, asm>>

\* lines 111-113
CmdM1004Clear ==
    /\ Fg("m1004_clr")
    /\ enable_count' = FALSE
    /\ Emit(OK)
    /\ pc' = "ret"
    /\ UNCHANGED <<head_position, counts, hw, isr, net, hist, line, locals, asm>>

ReadTargetUnchecked(armed) == "m1005_scan"

\* lines 119-123
ReadTarget(armed) == IF armed THEN "ret" ELSE "m1005_scan"

CmdM1005Check ==
    /\ Fg("m1005")
    /\ pc' = ReadTarget(enable_count)
    /\ out' = IF enable_count THEN Append(out, ErrReadActive) ELSE out
    /\ UNCHANGED <<shared, hw, isr, net, hist, line, locals, asm>>

ValidateNoOrder(r) ==
    IF r.n # 3 THEN ErrArgs
    ELSE IF r.channel < 0 \/ r.channel > 2 THEN ErrCounter
    ELSE IF \/ r.start < 0 \/ r.start >= HEAD_STEPS_MAX
            \/ r.end < 0 \/ r.end >= HEAD_STEPS_MAX THEN ErrRange
    ELSE <<>>

ValidateRangeFirst(r) ==
    IF r.n # 3 THEN ErrArgs
    ELSE IF \/ r.start < 0 \/ r.start >= HEAD_STEPS_MAX
            \/ r.end < 0 \/ r.end >= HEAD_STEPS_MAX
            \/ r.start > r.end THEN ErrRange
    ELSE IF r.channel < 0 \/ r.channel > 2 THEN ErrCounter
    ELSE <<>>

\* lines 126-142: the error line of the first failing check, <<>> when the
\* arguments r pass all of them
Validate(r) ==
    IF r.n # 3 THEN ErrArgs
    ELSE IF r.channel < 0 \/ r.channel > 2 THEN ErrCounter
    ELSE IF \/ r.start < 0 \/ r.start >= HEAD_STEPS_MAX
            \/ r.end < 0 \/ r.end >= HEAD_STEPS_MAX
            \/ r.start > r.end THEN ErrRange
    ELSE <<>>

\* lines 125-144, and the initialisation of the loop of line 149
CmdM1005Scan ==
    /\ Fg("m1005_scan")
    /\ LET r == Sscanf3(line)
           e == Validate(r)
       IN  IF e # <<>>
           THEN /\ Emit(e)
                /\ pc' = "ret"
                /\ UNCHANGED locals
           ELSE /\ out' = out \o <<OK, <<>>>>
                /\ channel' = r.channel /\ start' = r.start /\ end' = r.end
                /\ i' = r.start
                /\ pc' = "m1005_loop"
    /\ UNCHANGED <<shared, hw, isr, net, hist, line, asm>>

LoopContinuesExclusive(k, last) == k < last

\* line 149: i <= end
LoopContinues(k, last) == k <= last

\* lines 149-150: one iteration, printf("%" PRIu16 " ", counts[channel][i])
CmdM1005Print ==
    /\ Fg("m1005_loop")
    /\ LoopContinues(i, end)
    /\ out' = [out EXCEPT ![Len(out)] = @ \o Dec(counts[channel][i]) \o <<" ">>]
    /\ i' = i + 1
    /\ UNCHANGED <<shared, hw, isr, net, hist, pc, line, channel, start, end, asm>>

\* lines 151-154: the loop is left, the payload line ends, the closing ok
CmdM1005End ==
    /\ Fg("m1005_loop")
    /\ ~LoopContinues(i, end)
    /\ Emit(OK)
    /\ pc' = "ret"
    /\ UNCHANGED <<shared, hw, isr, net, hist, line, locals, asm>>

\* lines 160-164
ClearTarget(armed) == IF armed THEN "ret" ELSE "m1006_0"

CmdM1006Check ==
    /\ Fg("m1006")
    /\ pc' = ClearTarget(enable_count)
    /\ out' = IF enable_count THEN Append(out, ErrResetActive) ELSE out
    /\ UNCHANGED <<shared, hw, isr, net, hist, line, locals, asm>>

ClrPc == <<"m1006_0", "m1006_1", "m1006_2">>
AfterClr == <<"m1006_1", "m1006_2", "ret">>

MemsetHalf(table) ==
    [p \in Pos |-> IF 2 * p < HEAD_STEPS_MAX THEN 0 ELSE table[p]]

\* memset((uint8_t *)table, 0, 2 * HEAD_STEPS_MAX): both bytes of every cell
Memset(table) == [p \in Pos |-> 0]

\* lines 166, 167, 168: memset of one table; line 169 after the third
CmdM1006Clear(c) ==
    /\ Fg(ClrPc[c + 1])
    /\ counts' = [counts EXCEPT ![c] = Memset(@)]
    /\ out' = IF c = 2 THEN Append(out, OK) ELSE out
    /\ pc' = AfterClr[c + 1]
    /\ UNCHANGED <<head_position, enable_count, hw, isr, net, hist, line, locals, asm>>

\* line 173
CmdUnknown ==
    /\ Fg("unknown")
    /\ Emit(ErrUnknown(line))
    /\ pc' = "ret"
    /\ UNCHANGED <<shared, hw, isr, net, hist, line, locals, asm>>

\* parse_gcode returns; line 250: buflen = 0
Return ==
    /\ Fg("ret")
    /\ pc' = "rx"
    /\ buflen' = 0
    /\ line' = <<>>
    /\ channel' = 0 /\ start' = 0 /\ end' = 0 /\ i' = 0
    /\ out' = <<>>
    /\ sent' = IF rxn = Len(sent) THEN <<>> ELSE sent
    /\ rxn' = IF rxn = Len(sent) THEN 0 ELSE rxn
    /\ UNCHANGED <<shared, hw, isr, net, hist, linebuf>>

Command ==
    \/ CmdM1001
    \/ CmdM1002
    \/ CmdM1003Check
    \/ CmdM1003Trigger
    \/ CmdM1003Set
    \/ CmdM1004Check
    \/ CmdM1004Clear
    \/ CmdM1005Check
    \/ CmdM1005Scan
    \/ CmdM1005Print
    \/ CmdM1005End
    \/ CmdM1006Check
    \/ \E c \in Chan : CmdM1006Clear(c)
    \/ CmdUnknown
    \/ Return

Interrupt ==
    \/ \E d \in Direction : StepEdge(d)
    \/ \E c \in Chan : IsrAccumulate(c)
    \/ IsrTrigger
    \/ IsrMove
    \/ IsrWrap


\* ------------------------------------------------------------ input lines
SP == <<" ">>
Read(c, a, b) == M1005 \o SP \o Dec(c) \o SP \o Dec(a) \o SP \o Dec(b)
Fill(n) == [k \in 1..n |-> "x"]

\* well-formed commands
GoodLines ==
    {M1001, M1002, M1003, M1004, M1006}
    \cup {Read(c, 0, HEAD_STEPS_MAX - 1) : c \in Chan}
    \cup {Read(0, 0, 0), Read(1, 1, HEAD_STEPS_MAX - 1)}

\* lines the command engine has to reject
BadLines ==
    {M1005, M1005 \o SP \o Dec(0) \o SP \o Dec(0), M1005 \o <<" ", "x", " ", "0", " ", "0">>,
     Read(3, 0, 0), Read(0 - 1, 0, 0), Read(0, 1, 0), Read(0, 0, HEAD_STEPS_MAX),
     Read(0, 0 - 1, 0), <<"X">>, <<>>,
     Read(3, 1, 0), M1005 \o SP \o Dec(3) \o SP \o Dec(HEAD_STEPS_MAX)}

CmdLines == GoodLines \cup BadLines

\* ------------------------------------------------- main: the line loop
CR == "CR"
LF == "LF"
IsTerminatorLFOnly(c) == c = LF

\* line 246: c == '\n' || c == '\r'
IsTerminator(c) == c \in {CR, LF}

\* the C string that starts at linebuf[0]: the bytes before the first NUL
RECURSIVE CStrFrom(_, _)
CStrFrom(buf, k) ==
    IF k >= BufSize \/ buf[k] = NUL THEN <<>> ELSE <<buf[k]>> \o CStrFrom(buf, k + 1)
CStr(buf) == CStrFrom(buf, 0)

NextIndexSaturating(n) == IF n = BufSize - 1 THEN n ELSE n + 1

\* uint8_t buflen; buflen++ (lines 248, 253)
NextIndex(n) == (n + 1) % BufSize

\* line 242
BufferFull(n) == n = BufSize - 1

\* parse_gcode(linebuf, buflen) on a line the assembler has put together:
\* line 249 with the line as the input
Dispatch(l) ==
    /\ Fg("rx")
    /\ sent = <<>>
    /\ line' = l
    /\ pc' = Route(l)
    /\ UNCHANGED <<shared, hw, isr, net, hist, locals, asm, out>>

\* the host puts the bytes s on the link: udi_cdc_is_rx_ready() turns true
HostSend(s) ==
    /\ Fg("rx")
    /\ rxn = Len(sent)
    /\ sent' = s
    /\ rxn' = 0
    /\ UNCHANGED <<shared, hw, isr, net, hist, pc, line, locals, linebuf, buflen, out>>

\* lines 239-254: one iteration of the inner loop up to the call of parse_gcode
GetByte ==
    /\ Fg("rx")
    /\ rxn < Len(sent)
    /\ rxn' = rxn + 1
    /\ LET c == sent[rxn + 1]
           o == IF BufferFull(buflen) THEN Append(out, Warning) ELSE out
       IN  /\ out' = o
           /\ buflen' = NextIndex(buflen)
           /\ IF IsTerminator(c)
              THEN /\ linebuf' = [linebuf EXCEPT ![buflen] = NUL]
                   /\ line' = CStr(linebuf')
                   /\ pc' = Route(line')
              ELSE /\ linebuf' = [linebuf EXCEPT ![buflen] = c]
                   /\ UNCHANGED <<line, pc>>
    /\ UNCHANGED <<shared, hw, isr, net, hist, locals, sent>>

\* bytes the host sends in one go
Long1 == Fill(BufSize) \o M1002
Long2 == Fill(2 * BufSize - 1)
Full == Fill(BufSize - 1)
AsmLines == {M1001, M1002, M1003, M1004, M1006, Read(0, 0, 1), Read(3, 0, 0),
             <<"X">>, <<>>, Long1, Long2, Full}
Bursts == {l \o <<t>> : l \in AsmLines, t \in {CR, LF}} \cup {M1002 \o <<CR, LF>>}

\* ---------------------------------------------------------- specifications
\* the lines dispatched while pulses arrive
AcqLines == {M1001, M1002, M1003, M1004, M1006, Read(0, 0, 1), <<"X">>}

\* the acquisition engine: commands, step interrupts and pulses interleaved
Next ==
    \/ Interrupt
    \/ \E c \in Chan : Pulse(c)
    \/ \E l \in AcqLines : Dispatch(l)
    \/ Command

Spec == Init /\ [][Next]_vars

\* tables and counter values the firmware can have reached when a command or a
\* step arrives: every cell at v, or cell p of channel c at (c + p) mod 2^w;
\* every counter at k
FlatTables == {[c \in Chan |-> [p \in Pos |-> v]] : v \in 0..CELL_MAX}
RampTable == [c \in Chan |-> [p \in Pos |-> (c + p) % CellMod]]
CounterValues == {0, 1, 2, TcMod - 1}

InitCmd ==
    /\ head_position \in Pos
    /\ enable_count \in BOOLEAN
    /\ counts \in FlatTables \cup {RampTable}
    /\ tc \in {[c \in Chan |-> k] : k \in CounterValues}
    /\ InitCommon

\* the command engine and the step handler on those states, every input line
NextCmd ==
    \/ Interrupt
    \/ \E l \in CmdLines : Dispatch(l)
    \/ Command

SpecCmd == InitCmd /\ [][NextCmd]_vars

\* the line assembler in front of the command engine
NextLine ==
    \/ \E s \in Bursts : HostSend(s)
    \/ GetByte
    \/ Command
    \/ Interrupt

SpecLine == Init /\ [][NextLine]_vars

\* the position tracker alone: recorded step edges from any position, armed or
\* not, with M1001 and M1002 in between
StepLines == {M1001, M1002}

InitStep ==
    /\ head_position \in Pos
    /\ enable_count \in BOOLEAN
    /\ counts = [c \in Chan |-> ZeroTable]
    /\ tc \in {[c \in Chan |-> k] : k \in {0, 1}}
    /\ InitCommon

NextStep ==
    \/ \E d \in Direction : RecordedStepEdge(d)
    \/ \E c \in Chan : IsrAccumulate(c)
    \/ IsrTrigger
    \/ IsrMove
    \/ IsrWrap
    \/ \E l \in StepLines : Dispatch(l)
    \/ CmdM1001
    \/ CmdM1002
    \/ Return

SpecStep == InitStep /\ [][NextStep]_vars


\* ------------------------------------------------------------------ claims
AccPcs == {"acc0", "acc1", "acc2"}

\* C1: every pulse added to cell p of a channel arrived while the head was at
\* p: when the step handler is about to add the counter of channel c into the
\* cell at head_position, every pulse held in that counter arrived there.
C1_Attribution ==
    \A c \in Chan : isrpc = AccPc[c + 1] => tcAt[c] \subseteq {head_position}

\* C2: while armed no pulse is lost or double-counted across step events:
\* outside the read-to-retrigger section of the handler, the amounts added to a
\* channel's cells since arming equal the pulses its counter had received up
\* to the last retrigger of a step.
C2_NoPulseLost ==
    (enable_count /\ isrpc \notin AccPcs \cup {"trig"})
        => \A c \in Chan : added[c] = recvAtTrig[c]

\* C3: an armed step event with k on a channel's counter raises the cell at the
\* pre-step position by exactly min(k, CELL_MAX - old value), never wrapping.
C3_SaturatingAdd ==
    [][\A c \in Chan :
          isrpc = AccPc[c + 1] =>
              counts'[c][head_position] =
                  counts[c][head_position]
                      + Min(tc[c], CELL_MAX - counts[c][head_position])]_vars

\* C4: head_position is within [0, HEAD_STEPS_MAX) wherever it is observed:
\* whenever the foreground can run (so when M1001 reads it) and whenever the
\* step handler indexes the tables with it.
C4_PositionInRange ==
    (isrpc = "idle" \/ isrpc \in AccPcs) => head_position \in Pos

C4_Witness ==
    /\ pc = "m1001" /\ isrpc = "idle"
    /\ head_position = HEAD_STEPS_MAX - 1
    /\ net = HEAD_STEPS_MAX - 1

\* C5: while disarmed, no step of the step handler changes any cell of any
\* table, whatever the direction, the position and the counter values.
C5_DisarmedStepKeepsTables ==
    [][(~enable_count /\ (isrpc # "idle" \/ isrpc' # "idle")) => counts' = counts]_vars

C5_Witness ==
    /\ ~enable_count /\ isrpc = "wrap" /\ head_step = -1
    /\ tc[0] > 0 /\ tc[2] > 0

\* C6: the foreground is inside the M1005 payload read or the M1006 clear only
\* while disarmed; M1005 and M1006 issued while armed end with their error
\* line; and while the foreground is inside either section no step of the
\* interrupt handler changes a cell.
InTableSection == pc \in {"m1005_scan", "m1005_loop", "m1006_0", "m1006_1", "m1006_2"}

C6_NoTableAccessWhileArmed ==
    [][/\ InTableSection => ~enable_count
       /\ (InTableSection /\ isrpc # "idle") => counts' = counts
       /\ (pc = "m1005" /\ pc' # pc /\ enable_count)
              => (pc' = "ret" /\ out' = <<ErrReadActive>>)
       /\ (pc = "m1006" /\ pc' # pc /\ enable_count)
              => (pc' = "ret" /\ out' = <<ErrResetActive>>)]_vars

C6_Witness ==
    /\ pc = "m1005_loop" /\ i = 1 /\ isrpc = "wrap"
    /\ tc[0] > 0 /\ counts[0][0] > 0

\* C7: M1003 while armed prints its error and changes neither the flag nor the
\* counters; M1004 while disarmed prints its error and leaves the flag false;
\* the flag changes only in a successful M1003 or M1004.
C7_ArmDisarmRejected ==
    [][/\ (pc = "m1003" /\ pc' # pc /\ enable_count)
              => (pc' = "ret" /\ out' = <<ErrActive>> /\ enable_count' /\ tc' = tc)
       /\ (pc = "m1004" /\ pc' # pc /\ ~enable_count)
              => (pc' = "ret" /\ out' = <<ErrNotActive>> /\ ~enable_count')
       /\ (enable_count' # enable_count)
              => /\ pc \in {"m1003_set", "m1004_clr"}
                 /\ enable_count' = (pc = "m1003_set")
                 /\ pc' = "ret" /\ out' = <<OK>>]_vars

C7_Witness ==
    /\ pc = "ret" /\ line = M1003 /\ out = <<ErrActive>>
    /\ enable_count /\ tc[0] > 0

\* C8: an M1005 that fails validation prints exactly one error line, no ok and
\* no payload, and changes neither head_position nor enable_count nor a cell.
InvalidReads ==
    {M1005, M1005 \o SP \o Dec(0) \o SP \o Dec(0), M1005 \o <<" ", "x", " ", "0", " ", "0">>,
     Read(3, 0, 0), Read(0 - 1, 0, 0), Read(0, 1, 0), Read(0, 0, HEAD_STEPS_MAX),
     Read(0, 0 - 1, 0)}

C8_InvalidReadRejected ==
    [][line' \in InvalidReads =>
          /\ pc' \in {"m1005", "m1005_scan", "ret"}
          /\ pc' = "ret" => (Len(out') = 1 /\ IsError(out'[1]))
          /\ pc' # "ret" => out' = <<>>
          /\ (line \in InvalidReads /\ pc' # pc)
                 => UNCHANGED <<head_position, enable_count, counts>>]_vars

C8_Witness ==
    /\ pc = "ret" /\ line = Read(0, 1, 0) /\ ~enable_count
    /\ out = <<ErrRange>> /\ counts = RampTable

\* the bytes of the input line whose terminator was consumed last
RECURSIVE LineStart(_, _)
LineStart(s, n) ==
    IF n <= 1 THEN 1
    ELSE IF IsTerminator(s[n - 1]) THEN n
    ELSE LineStart(s, n - 1)
CurLine == SubSeq(sent, LineStart(sent, rxn), rxn - 1)
WarnCount(o) == Cardinality({k \in 1..Len(o) : o[k] = Warning})
IsSuffix(t, s) == Len(t) <= Len(s) /\ SubSeq(s, Len(s) - Len(t) + 1, Len(s)) = t

\* C9: for an input line of more bytes than the line buffer holds, exactly one
\* warning line is written and the command engine is not handed the tail of
\* the line.
C9_OverlongLine ==
    (pc = "ret" /\ Len(CurLine) > BufSize)
        => /\ WarnCount(out) = 1
           /\ ~(line # <<>> /\ IsSuffix(line, CurLine))

\* C10: M1001 reports forward minus reverse steps since the last M1002 (or
\* since start-up) modulo HEAD_STEPS_MAX, whatever arming, disarming and pulses
\* happened in between.
C10_ReportsNetSteps ==
    [][(pc = "m1001" /\ pc' # pc) => (pc' = "ret" /\ out' = <<OK, Dec(net)>>)]_vars

C10_Witness ==
    /\ pc = "ret" /\ line = M1001 /\ out = <<OK, Dec(2)>>
    /\ enable_count /\ npulses > 0 /\ counts[0][1] > 0

\* C11: with no M1002 in between, HEAD_STEPS_MAX consecutive forward steps
\* bring the head back to where it was, and so do HEAD_STEPS_MAX consecutive
\* reverse steps; a step followed by a step in the other direction does too.
SameDir(h, d) == \A k \in 1..Len(h) : h[k].dir = d

C11_StepsReturn ==
    isrpc = "idle" =>
        /\ (Len(hist) = HEAD_STEPS_MAX /\ (SameDir(hist, 1) \/ SameDir(hist, -1)))
               => head_position = hist[1].pos
        /\ (Len(hist) >= 2 /\ hist[Len(hist)].dir # hist[Len(hist) - 1].dir)
               => head_position = hist[Len(hist) - 1].pos

C11_Witness ==
    /\ isrpc = "idle" /\ Len(hist) = HEAD_STEPS_MAX /\ SameDir(hist, -1)
    /\ hist[1].pos = 0 /\ head_position = 0

\* C12: a successful M1006 leaves every cell of the three tables zero whatever
\* they held; while disarmed zero tables stay zero through step events; and an
\* M1005 c 0 N-1 that completes on them prints N zeros, for every channel c.
AllZero == \A c \in Chan : \A p \in Pos : counts[c][p] = 0
ZeroPayload == [k \in 1..(2 * HEAD_STEPS_MAX) |-> IF k % 2 = 1 THEN "0" ELSE " "]

C12_ClearThenReadZeros ==
    [][/\ (pc = "m1006_2" /\ pc' # pc) => (AllZero' /\ pc' = "ret" /\ out' = <<OK>>)
       /\ (AllZero /\ ~enable_count) => AllZero'
       /\ \A c \in Chan :
             (pc' = "ret" /\ line' = Read(c, 0, HEAD_STEPS_MAX - 1)
                  /\ AllZero' /\ ~enable_count')
                 => out' = <<OK, ZeroPayload, OK>>]_vars

C12_Witness ==
    /\ pc = "ret" /\ line = Read(2, 0, HEAD_STEPS_MAX - 1)
    /\ out = <<OK, ZeroPayload, OK>>
    /\ AllZero /\ ~enable_count /\ added[2] > 0

\* C13: a successful M1005 channel start end prints ok, then the cells
\* start..end of the requested table in ascending order, one count each, then
\* ok, and no statement of it changes the position, the flag, a cell or a
\* counter.
ValidReads == {<<c, 0, HEAD_STEPS_MAX - 1>> : c \in Chan}
                  \cup {<<0, 0, 0>>, <<1, 1, HEAD_STEPS_MAX - 1>>}
ReadLine(t) == Read(t[1], t[2], t[3])

RECURSIVE CellsText(_, _, _)
CellsText(c, a, b) ==
    IF a > b THEN <<>> ELSE Dec(counts[c][a]) \o <<" ">> \o CellsText(c, a + 1, b)

ReadAnswered ==
    \A t \in ValidReads :
        (pc = "ret" /\ line = ReadLine(t) /\ ~enable_count)
            => out = <<OK, CellsText(t[1], t[2], t[3]), OK>>

C13_ReadReturnsCells ==
    [][/\ ReadAnswered'
       /\ ((\E t \in ValidReads : line = ReadLine(t)) /\ (pc' # pc \/ i' # i))
              => UNCHANGED <<head_position, enable_count, counts, tc>>]_vars

C13_Witness ==
    /\ pc = "ret" /\ line = Read(1, 1, HEAD_STEPS_MAX - 1) /\ ~enable_count
    /\ counts = RampTable
    /\ out = <<OK, Dec(2) \o <<" ">> \o Dec(3 % CellMod) \o <<" ">>, OK>>

\* C14: no cell ever decreases while armed; a cell is lowered only by the
\* clear of M1006, to zero, while disarmed.
C14_CellsMonotonic ==
    [][\A c \in Chan : \A p \in Pos :
          counts'[c][p] < counts[c][p]
              => (~enable_count /\ pc = ClrPc[c + 1] /\ counts'[c][p] = 0)]_vars

\* C15: arming discards what the counters held: from the retrigger of a
\* successful M1003 on, and for as long as acquisition stays armed, each counter
\* holds exactly the pulses received since the later of that retrigger and the
\* last step's retrigger, and the amounts added to a channel's cells never
\* exceed the pulses received since the retrigger of M1003.
C15_ArmDiscards ==
    (enable_count \/ pc = "m1003_set")
        => \A c \in Chan : /\ tc[c] = received[c] - recvAtTrig[c]
                           /\ added[c] <= received[c]

\* a pulse that arrived before arming was discarded, and the one that arrived
\* after the retrigger of M1003 has been added by an armed step
C15_Witness ==
    /\ enable_count /\ isrpc = "idle"
    /\ npulses = 2 /\ received[0] = 1 /\ received[1] = 0 /\ received[2] = 0
    /\ added[0] = 1

\* the line loop under the scheduling of the processor: a step handler that
\* has started runs to its return, and the foreground, which runs whenever no
\* handler does, is not kept off the processor for ever by step edges
IsrRun ==
    \/ \E c \in Chan : IsrAccumulate(c)
    \/ IsrTrigger
    \/ IsrMove
    \/ IsrWrap

FairLines == {M1001, M1002, M1003, M1004, M1006, Read(0, 0, 1), Read(3, 0, 0),
              M1005, <<"X">>, <<>>}
FairBursts == {l \o <<LF>> : l \in FairLines}

NextFair ==
    \/ \E s \in FairBursts : HostSend(s)
    \/ GetByte
    \/ Command
    \/ Interrupt

SpecFair == Init /\ [][NextFair]_vars /\ WF_vars(IsrRun) /\ SF_vars(Command)

\* the lines a command has printed, the warning of the line loop left out
Responses(o) == SelectSeq(o, LAMBDA x : x # Warning)

\* C16: no input is fatal: every dispatched line is answered with at least one
\* response line by the time parse_gcode returns, parse_gcode always returns,
\* and after the return the line loop is back at its read with an empty buffer.
C16_NoInputFatal ==
    /\ [](pc = "ret" => Len(Responses(out)) >= 1)
    /\ (pc # "rx") ~> (pc = "ret")
    /\ (pc = "ret") ~> (pc = "rx" /\ buflen = 0)

\* a malformed read has been rejected while a step handler is running
C16_Witness ==
    /\ pc = "ret" /\ line = Read(3, 0, 0) /\ out = <<ErrCounter>>
    /\ isrpc # "idle" /\ buflen > 0

\* the position the head had when the step edge being handled arrived
StepPos == hist[Len(hist)].pos

\* C17: within one armed step event at position p the three adds and the
\* retrigger come before the position update: each add changes at most the cell
\* at p of its own channel and leaves the position at p, the retrigger follows
\* the third add with the position still at p, and the position update and the
\* wrap that follow change no cell.
C17_PreStepCells ==
    [][/\ \A c \in Chan :
              isrpc = AccPc[c + 1] =>
                  /\ head_position = StepPos /\ head_position' = StepPos
                  /\ counts' = [counts EXCEPT ![c][StepPos] = counts'[c][StepPos]]
       /\ isrpc = "trig" => (head_position' = StepPos /\ tc' = ZeroChan /\ isrpc' = "move")
       /\ (enable_count /\ isrpc' = "move") => isrpc = "trig"
       /\ (enable_count /\ isrpc' = "trig") => isrpc = "acc2"
       /\ isrpc \in {"move", "wrap"} => counts' = counts]_vars

\* an armed step at position 1 has added one pulse to cell 1 of every channel
\* and retriggered, and is about to update the position
C17_Witness ==
    /\ enable_count /\ isrpc = "move" /\ head_position = 1 /\ StepPos = 1
    /\ tc = ZeroChan
    /\ \A c \in Chan : counts[c] = [p \in Pos |-> IF p = 1 THEN 1 ELSE 0]

\* the last m bytes of s
LastBytes(s, m) == SubSeq(s, Len(s) - m + 1, Len(s))

\* C18: the write index wraps from BufSize - 1 to 0: for an input line of L
\* bytes before its terminator the command engine is handed exactly the last
\* L mod BufSize bytes of the line, and the warning has been written once for
\* every byte, the terminator included, that arrived with BufSize - 1 bytes
\* buffered: (L + 1) \div BufSize times.
C18_IndexWraps ==
    pc = "ret" =>
        /\ line = LastBytes(CurLine, Len(CurLine) % BufSize)
        /\ WarnCount(out) = (Len(CurLine) + 1) \div BufSize

\* a line of two laps of the buffer less one byte: two warnings, and the last
\* BufSize - 1 bytes handed over
C18_Witness ==
    /\ pc = "ret" /\ CurLine = Long2 /\ line = Fill(BufSize - 1)
    /\ WarnCount(out) = 2 /\ buflen = 0

\* C19: in M1005 the armed check comes first: while armed every line that
\* begins with M1005 is answered with the read-while-active error alone,
\* whatever follows the prefix; while disarmed the argument count is checked
\* before the channel and the channel before the range, and the one error line
\* printed is that of the first check that fails.
BadChannel(r) == r.channel < 0 \/ r.channel > 2
BadRange(r) ==
    \/ r.start < 0 \/ r.start >= HEAD_STEPS_MAX
    \/ r.end < 0 \/ r.end >= HEAD_STEPS_MAX
    \/ r.start > r.end

C19_ArmedCheckFirst ==
    (pc = "ret" /\ HasPrefix5(line)) =>
        LET r == Sscanf3(line)
        IN  /\ enable_count => out = <<ErrReadActive>>
            /\ (~enable_count /\ r.n # 3) => out = <<ErrArgs>>
            /\ (~enable_count /\ r.n = 3 /\ BadChannel(r)) => out = <<ErrCounter>>
            /\ (~enable_count /\ r.n = 3 /\ ~BadChannel(r) /\ BadRange(r))
                   => out = <<ErrRange>>

\* disarmed, a read whose channel and range are both invalid has been answered
\* with the channel error
C19_Witness ==
    /\ pc = "ret" /\ line = Read(3, 1, 0) /\ ~enable_count
    /\ out = <<ErrCounter>> /\ isrpc # "idle"

\* C20: every CR and every LF taken from the link dispatches exactly one line,
\* made of the bytes received since the terminator before it, the empty line
\* included, and nothing else dispatches; the empty line is answered with the
\* unknown-command error alone, and the foreground, while it handles it,
\* changes neither head_position nor enable_count nor a cell.
ByteTaken == rxn' = rxn + 1 /\ sent' = sent

C20_TerminatorDispatches ==
    [][/\ (ByteTaken /\ sent[rxn + 1] \in {CR, LF})
              => /\ pc = "rx" /\ pc' = Route(line') /\ pc' # "rx"
                 /\ Len(CurLine') < BufSize => line' = CurLine'
       /\ (pc = "rx" /\ pc' # "rx") => (ByteTaken /\ sent[rxn + 1] \in {CR, LF})
       /\ (ByteTaken /\ sent[rxn + 1] \notin {CR, LF}) => pc' = "rx"
       /\ (line' = <<>> /\ pc' # "rx") => pc' \in {"unknown", "ret"}
       /\ (line' = <<>> /\ pc' = "ret") => out' = <<ErrUnknown(<<>>)>>
       /\ (line = <<>> /\ pc # "rx" /\ pc' # pc)
              => UNCHANGED <<head_position, enable_count, counts, tc>>]_vars

\* M1002 CR LF: the LF has dispatched an empty line of its own, which has been
\* answered with the unknown-command error
C20_Witness ==
    /\ sent = M1002 \o <<CR, LF>> /\ rxn = Len(sent)
    /\ pc = "ret" /\ line = <<>> /\ out = <<ErrUnknown(<<>>)>>

====
